---- MODULE Spec2Model ----
(***************************************************************************)
(* Solari: ingestion cursor (sheet poll) and the interactive               *)
(* categorisation conversation of the Telegram bot.                        *)
(*                                                                         *)
(* Part I   the polled source, the cursor and check_for_updates            *)
(*          (specification SpecPoll).                                      *)
(* Part II  the conversation store and the conversation state machine      *)
(*          (specification Spec).                                          *)
(*                                                                         *)
(* Python indexes rows from 0 (row 0 is the header); TLA+ sequences start  *)
(* at 1, so row i of the sheet is rows[i + 1].                             *)
(***************************************************************************)
EXTENDS Integers, Sequences, FiniteSets, TLC

(***************************************************************************)
(* Bounds of the model                                                     *)
(***************************************************************************)
\* most rows the sheet holds, header included
MaxSheetRows == 3
\* most rows ever deleted from the sheet
MaxDeletes == 1

(***************************************************************************)
(* Program constants                                                       *)
(***************************************************************************)
\* sheet_monitor.py:73
min_expected_columns == 7
\* constants.py:100
DEFAULT_LAST_PROCESSED_ROW == 0

\* field counts a row of the sheet may have: one short of the minimum, and full
RowLens == {min_expected_columns - 2, min_expected_columns}

\* the two callers of check_for_updates: the job queue's periodic_check_task
\* and the /check command handler
Procs == {"periodic", "check_cmd"}

\* outcomes of SheetMonitor.get_rows: the first read succeeds; the first read
\* raises and the read after the reconnect succeeds; the reconnect or the
\* second read raises
ReadOutcomes == {"ok", "retry_ok", "raise"}

RowIdx == 1..(MaxSheetRows - 1)

VARIABLES
    rows,                \* the sheet: sequence of rows, each row its field count
    deletes,             \* history: rows deleted from the sheet so far
    config_lpr,          \* ConfigManager.config["last_processed_row"] (in memory)
    file_lpr,            \* last_processed_row in the saved config file
    running,             \* the coroutine holding the event loop, or "none"
    pc,                  \* per caller: position inside check_for_updates
    last_processed_row,  \* per caller: the local of check_for_updates
    new_transactions,    \* per caller: records returned (each its source row index)
    new_last_row,        \* per caller: cursor returned by get_new_rows
    index,               \* per caller: position of the notification loop
    wrote,               \* history, per caller: the cycle called update_last_processed_row
    returned,            \* history, per row index: times a poll returned the row
    notifiedBy,          \* history, per row index: callers that notified the row
    lastPoll,            \* history: the most recent poll (see CfuFetch)
    repoll               \* history: verdict of the most recent poll as a re-poll

pollVars == <<rows, deletes, config_lpr, file_lpr, running, pc, last_processed_row,
              new_transactions, new_last_row, index, wrote, returned, notifiedBy,
              lastPoll, repoll>>

VARIABLES
    callback_share,      \* the callback prefixes the deployed constants module defines
    user_ids,            \* the users the bot notifies (config["user_ids"])
    conversations,       \* ConversationContextManager.conversations
    next_message_id,     \* per chat: id Telegram gives the next prompt the bot sends
    keyboards,           \* history, per user and transaction: keyboards shown so far
    handed_over,         \* history, per conversation in the store: write_transaction
                         \* was called for it
    last_event           \* history: what the most recent handler did

convVars == <<callback_share, user_ids, conversations, next_message_id, keyboards,
             handed_over, last_event>>

VARIABLES
    wrapper_call         \* history: the most recent call of PersistenceWrapper.write_transaction

wrapVars == <<wrapper_call>>

VARIABLES
    call                 \* history: the most recent call of an operation checked on
                         \* its own, with its arguments and what it gave

callVars == <<call>>

VARIABLES
    tasks,               \* per user: the store operations the user's handler, now
                         \* waiting at an await, makes when it goes on
    serial,              \* history: the store had every handler run without a break
    actor                \* history: the user whose handler made the last step

taskVars == <<tasks, serial, actor>>

vars == <<pollVars, convVars, wrapVars, callVars, taskVars>>

Max(a, b) == IF a >= b THEN a ELSE b

\* rows[i] of the Python list
Row(snapshot, i) == snapshot[i + 1]

(***************************************************************************)
(* SheetMonitor.get_new_rows                                               *)
(***************************************************************************)
\* a loop that takes every row from row i on, whatever its number of fields
CollectAllRows(snapshot, i) ==
    IF i >= Len(snapshot) THEN <<>> ELSE [k \in 1..(Len(snapshot) - i) |-> i + k - 1]

\* the loop of get_new_rows: from row i to the end of the snapshot, the rows
\* with all required fields, in order (a record is named by its row index)
RECURSIVE CollectNewRows(_, _)
CollectNewRows(snapshot, i) ==
    IF i >= Len(snapshot) THEN <<>>
    ELSE (IF Row(snapshot, i) >= min_expected_columns THEN <<i>> ELSE <<>>)
         \o CollectNewRows(snapshot, i + 1)

\* a loop that starts at the cursor's own row instead of the row after it
StartIndexAtCursor(last) == Max(1, last)

\* first row the loop of get_new_rows looks at: range(max(1, last + 1), len(rows))
StartIndex(last) == Max(1, last + 1)

\* a cursor that advances by the number of records returned
NewLastProcessedRowCounted(snapshot, new_rows, last) == last + Len(new_rows)

\* a cursor that always follows the end of the snapshot
NewLastProcessedRowOfSnapshot(snapshot, new_rows, last) == Len(snapshot) - 1

\* the cursor get_new_rows returns beside new_rows
NewLastProcessedRow(snapshot, new_rows, last) ==
    IF new_rows # <<>> THEN Len(snapshot) - 1 ELSE last

\* a reader that does not look at the header row
get_new_rows_any_header(snapshot, outcome, last) ==
    IF outcome = "raise" THEN [new_rows |-> <<>>, new_last |-> last]
    ELSE LET new_rows == CollectNewRows(snapshot, StartIndex(last))
         IN  [new_rows |-> new_rows,
              new_last |-> NewLastProcessedRow(snapshot, new_rows, last)]

\* get_new_rows(last) when get_rows ended with `outcome` and, unless it
\* raised, returned `snapshot`
get_new_rows(snapshot, outcome, last) ==
    IF outcome = "raise" THEN [new_rows |-> <<>>, new_last |-> last]
    ELSE IF Len(snapshot) = 0 THEN [new_rows |-> <<>>, new_last |-> last]
    ELSE IF Row(snapshot, 0) < min_expected_columns
         THEN [new_rows |-> <<>>, new_last |-> last]
    ELSE LET new_rows == CollectNewRows(snapshot, StartIndex(last))
         IN  [new_rows |-> new_rows,
              new_last |-> NewLastProcessedRow(snapshot, new_rows, last)]

Range(s) == {s[k] : k \in 1..Len(s)}

\* outcomes of one call of the sheet API (get_all_values, connect)
CallOutcomes == {"ok", "raise"}

\* SheetMonitor.get_rows when the first get_all_values, connect and the second
\* get_all_values end as given: the reads and reconnects made, and how it ends
get_rows(first, reconnect, second) ==
    IF first = "ok" THEN [reads |-> 1, connects |-> 0, outcome |-> "ok"]
    ELSE IF reconnect = "raise" THEN [reads |-> 1, connects |-> 1, outcome |-> "raise"]
    ELSE [reads |-> 2, connects |-> 1,
          outcome |-> IF second = "ok" THEN "retry_ok" ELSE "raise"]

\* whether get_new_rows ends by raising when get_rows ended with `outcome`:
\* lines 100-102 catch every exception and return
get_new_rows_raises(outcome) == FALSE

\* the sheets a poll may read
Sheets == UNION {[1..n -> RowLens] : n \in 0..MaxSheetRows}

\* one poll cycle on its own: check_for_updates with cursor `last` on sheet
\* `snapshot`, up to the cursor it leaves (lines 395-399)
PollCycle(snapshot, first, reconnect, second, last) ==
    LET g == get_rows(first, reconnect, second)
        r == get_new_rows(snapshot, g.outcome, last)
    IN  /\ call' = [op |-> "check_for_updates", snapshot |-> snapshot, first |-> first,
                    reconnect |-> reconnect, second |-> second, last |-> last,
                    reads |-> g.reads, connects |-> g.connects,
                    read_raised |-> g.outcome = "raise",
                    raised |-> get_new_rows_raises(g.outcome),
                    new_rows |-> r.new_rows, new_last |-> r.new_last,
                    cursor |-> IF r.new_rows # <<>> THEN r.new_last ELSE last]
        /\ UNCHANGED <<pollVars, convVars, wrapVars, taskVars>>

\* telegram_bot.py:118,124: the field count the reader of the bot's own
\* SheetMonitor asks of the header and of a row
bot_min_columns == 5
\* telegram_bot.py:125-133: the fields that reader reads of a row, row[0]..row[6]
bot_fields_read == 7

\* telegram_bot.py:102-145 SheetMonitor.get_new_rows of the bot's own reader:
\* a row that passes the check on its length and is shorter than the fields
\* read raises IndexError inside the loop, which the except of lines 143-145
\* answers with ([], last_processed_row)
SheetMonitor_get_new_rows(snapshot, outcome, last) ==
    IF outcome = "raise" THEN [new_rows |-> <<>>, new_last |-> last]
    ELSE IF Len(snapshot) = 0 THEN [new_rows |-> <<>>, new_last |-> last]
    ELSE IF Row(snapshot, 0) < bot_min_columns
         THEN [new_rows |-> <<>>, new_last |-> last]
    ELSE IF \E i \in StartIndex(last)..(Len(snapshot) - 1) :
               Row(snapshot, i) >= bot_min_columns /\ Row(snapshot, i) < bot_fields_read
         THEN [new_rows |-> <<>>, new_last |-> last]
    ELSE LET new_rows == SelectSeq(CollectAllRows(snapshot, StartIndex(last)),
                                   LAMBDA i : Row(snapshot, i) >= bot_min_columns)
         IN  [new_rows |-> new_rows,
              new_last |-> IF new_rows # <<>> THEN Len(snapshot) - 1 ELSE last]

\* one poll of the bot's own reader with cursor `last` on sheet `snapshot`
BotPoll(snapshot, outcome, last) ==
    LET r == SheetMonitor_get_new_rows(snapshot, outcome, last)
    IN  /\ call' = [op |-> "SheetMonitor_get_new_rows", snapshot |-> snapshot,
                    last |-> last, read_raised |-> outcome = "raise",
                    new_rows |-> r.new_rows, new_last |-> r.new_last]
        /\ UNCHANGED <<pollVars, convVars, wrapVars, taskVars>>

NextRead ==
    \/ \E snapshot \in Sheets, first, reconnect, second \in CallOutcomes,
          last \in 0..MaxSheetRows :
          PollCycle(snapshot, first, reconnect, second, last)
    \/ \E snapshot \in Sheets, outcome \in CallOutcomes, last \in 0..MaxSheetRows :
          BotPoll(snapshot, outcome, last)

\* the sheet has only ever been appended to
appendOnly == deletes = 0

\* lastPoll when the sheet changed since the last poll (or none was made)
NoPoll == [unchanged |-> FALSE, cursor |-> 0, readOk |-> TRUE]

(***************************************************************************)
(* The sheet (external)                                                    *)
(***************************************************************************)
AppendRow(n) ==
    /\ Len(rows) < MaxSheetRows
    /\ rows' = Append(rows, n)
    /\ lastPoll' = NoPoll
    /\ UNCHANGED <<deletes, config_lpr, file_lpr, running, pc, last_processed_row,
                   new_transactions, new_last_row, index, wrote, returned, notifiedBy,
                   repoll>>

\* the last row is deleted from the sheet: the record it held is gone
DeleteLastRow ==
    /\ Len(rows) > 0
    /\ deletes < MaxDeletes
    /\ rows' = SubSeq(rows, 1, Len(rows) - 1)
    /\ deletes' = deletes + 1
    /\ lastPoll' = NoPoll
    /\ returned' = [i \in RowIdx |-> IF i = Len(rows) - 1 THEN 0 ELSE returned[i]]
    /\ notifiedBy' = [i \in RowIdx |-> IF i = Len(rows) - 1 THEN {} ELSE notifiedBy[i]]
    /\ UNCHANGED <<config_lpr, file_lpr, running, pc, last_processed_row,
                   new_transactions, new_last_row, index, wrote, repoll>>

(***************************************************************************)
(* TelegramBot.check_for_updates, called by periodic_check_task and by     *)
(* check_cmd.  A coroutine keeps the event loop from one await to the      *)
(* next: `running` names the coroutine inside a stretch of code without    *)
(* an await.                                                               *)
(***************************************************************************)
\* a check_for_updates that awaits between reading the cursor and advancing it
YieldsAfterReadAwaited == TRUE

\* whether the coroutine gives up the event loop after reading the cursor
\* (get_last_processed_row and get_new_rows are plain calls, not awaited)
YieldsAfterRead == FALSE

\* line 395: last_processed_row = self.config_manager.get_last_processed_row()
CfuRead(p) ==
    /\ pc[p] = "idle"
    /\ running = "none"
    /\ last_processed_row' = [last_processed_row EXCEPT ![p] = config_lpr]
    /\ wrote' = [wrote EXCEPT ![p] = FALSE]
    /\ pc' = [pc EXCEPT ![p] = "fetch"]
    /\ running' = IF YieldsAfterRead THEN "none" ELSE p
    /\ UNCHANGED <<rows, deletes, config_lpr, file_lpr, new_transactions,
                   new_last_row, index, returned, notifiedBy, lastPoll, repoll>>

\* line 396: new_transactions, new_last_row = self.sheet_monitor.get_new_rows(...)
CfuFetch(p) ==
    /\ pc[p] = "fetch"
    /\ running = (IF YieldsAfterRead THEN "none" ELSE p)
    /\ \E outcome \in ReadOutcomes :
         LET r == get_new_rows(rows, outcome, last_processed_row[p])
         IN  /\ new_transactions' = [new_transactions EXCEPT ![p] = r.new_rows]
             /\ new_last_row' = [new_last_row EXCEPT ![p] = r.new_last]
             /\ returned' = [i \in RowIdx |->
                               IF i \in Range(r.new_rows) /\ returned[i] < 2
                               THEN returned[i] + 1 ELSE returned[i]]
             \* this poll as a re-poll of the previous one: the sheet is as the
             \* previous poll read it and this poll starts from the cursor it left
             /\ repoll' = IF ~(lastPoll.unchanged
                                /\ last_processed_row[p] = lastPoll.cursor)
                           THEN "none"
                           ELSE IF r.new_rows = <<>> /\ r.new_last = last_processed_row[p]
                           THEN "empty_same"
                           ELSE IF lastPoll.readOk THEN "records"
                           ELSE "records_after_failed_read"
             /\ lastPoll' = [unchanged |-> TRUE, cursor |-> r.new_last,
                             readOk |-> outcome # "raise"]
    /\ pc' = [pc EXCEPT ![p] = "advance"]
    /\ running' = p
    /\ UNCHANGED <<rows, deletes, config_lpr, file_lpr, last_processed_row,
                   index, wrote, notifiedBy>>

\* lines 398-399: if new_transactions: update_last_processed_row(new_last_row);
\* ConfigManager.update_last_processed_row sets the value in memory and saves the
\* file (_save_config returns False when the file cannot be written)
\* a check_for_updates that saves the cursor in every cycle
WritesCursorAlways(p) == TRUE

WritesCursor(p) == new_transactions[p] # <<>>

CfuAdvance(p) ==
    /\ pc[p] = "advance"
    /\ running = p
    /\ IF WritesCursor(p)
       THEN /\ config_lpr' = new_last_row[p]
            /\ \E saved \in BOOLEAN :
                 file_lpr' = IF saved THEN new_last_row[p] ELSE file_lpr
            /\ wrote' = [wrote EXCEPT ![p] = TRUE]
       ELSE UNCHANGED <<config_lpr, file_lpr, wrote>>
    /\ pc' = [pc EXCEPT ![p] = IF new_transactions[p] # <<>> THEN "notify" ELSE "return"]
    /\ index' = [index EXCEPT ![p] = 0]
    /\ running' = "none"
    /\ UNCHANGED <<rows, deletes, last_processed_row, new_transactions,
                   new_last_row, returned, notifiedBy, lastPoll, repoll>>

\* lines 402-404: one round of the loop, await send_transaction_notification(...)
\* (telegram_bot.py:408-456 sends to the users and swallows every error)
CfuNotify(p) ==
    /\ pc[p] = "notify"
    /\ running = "none"
    /\ \E sent \in BOOLEAN :
         notifiedBy' = [notifiedBy EXCEPT ![new_transactions[p][index[p] + 1]] =
                           IF sent THEN @ \cup {p} ELSE @]
    /\ index' = [index EXCEPT ![p] = @ + 1]
    /\ pc' = [pc EXCEPT ![p] = IF index[p] + 1 >= Len(new_transactions[p])
                                THEN "return" ELSE "notify"]
    /\ UNCHANGED <<rows, deletes, config_lpr, file_lpr, running, last_processed_row,
                   new_transactions, new_last_row, wrote, returned, lastPoll, repoll>>

\* line 406: return new_transactions (the caller's cycle ends)
CfuReturn(p) ==
    /\ pc[p] = "return"
    /\ running = "none"
    /\ pc' = [pc EXCEPT ![p] = "idle"]
    /\ last_processed_row' = [last_processed_row EXCEPT ![p] = 0]
    /\ new_transactions' = [new_transactions EXCEPT ![p] = <<>>]
    /\ new_last_row' = [new_last_row EXCEPT ![p] = 0]
    /\ index' = [index EXCEPT ![p] = 0]
    /\ wrote' = [wrote EXCEPT ![p] = FALSE]
    /\ UNCHANGED <<rows, deletes, config_lpr, file_lpr, running, returned,
                   notifiedBy, lastPoll, repoll>>

PollInit ==
    /\ rows = <<>>
    /\ deletes = 0
    /\ config_lpr = DEFAULT_LAST_PROCESSED_ROW
    /\ file_lpr = DEFAULT_LAST_PROCESSED_ROW
    /\ running = "none"
    /\ pc = [p \in Procs |-> "idle"]
    /\ last_processed_row = [p \in Procs |-> 0]
    /\ new_transactions = [p \in Procs |-> <<>>]
    /\ new_last_row = [p \in Procs |-> 0]
    /\ index = [p \in Procs |-> 0]
    /\ wrote = [p \in Procs |-> FALSE]
    /\ returned = [i \in RowIdx |-> 0]
    /\ notifiedBy = [i \in RowIdx |-> {}]
    /\ lastPoll = NoPoll
    /\ repoll = "none"

NextPoll ==
    \/ \E n \in RowLens : AppendRow(n) /\ UNCHANGED <<convVars, wrapVars, callVars, taskVars>>
    \/ DeleteLastRow /\ UNCHANGED <<convVars, wrapVars, callVars, taskVars>>
    \/ \E p \in Procs : CfuRead(p) /\ UNCHANGED <<convVars, wrapVars, callVars, taskVars>>
    \/ \E p \in Procs : CfuFetch(p) /\ UNCHANGED <<convVars, wrapVars, callVars, taskVars>>
    \/ \E p \in Procs : CfuAdvance(p) /\ UNCHANGED <<convVars, wrapVars, callVars, taskVars>>
    \/ \E p \in Procs : CfuNotify(p) /\ UNCHANGED <<convVars, wrapVars, callVars, taskVars>>
    \/ \E p \in Procs : CfuReturn(p) /\ UNCHANGED <<convVars, wrapVars, callVars, taskVars>>

(***************************************************************************)
(* Part II: the conversation store and the conversation state machine      *)
(***************************************************************************)
\* most prompts the bot sends into one chat
MaxMessages == 2

Users == {"u1", "u2"}
TxIds == {"t1", "t2"}

(***************************************************************************)
(* Python floats: a number, nan, or an infinity with its sign              *)
(***************************************************************************)
Num(n) == [k |-> "num", v |-> n]
NaN == [k |-> "nan", v |-> 0]
Infinity(sign) == [k |-> "inf", v |-> sign]

\* a < b on floats: every comparison with nan is false
FloatLt(a, b) ==
    IF a.k = "nan" \/ b.k = "nan" THEN FALSE
    ELSE IF a.k = "inf" THEN a.v < 0 /\ ~(b.k = "inf" /\ b.v < 0)
    ELSE IF b.k = "inf" THEN b.v > 0
    ELSE a.v < b.v

FloatGt(a, b) == FloatLt(b, a)

(***************************************************************************)
(* Text: a string is the sequence of its characters                        *)
(***************************************************************************)
DigitChars == <<"0", "1", "2", "3", "4", "5", "6", "7", "8", "9">>
IsDigit(c) == \E k \in 1..Len(DigitChars) : DigitChars[k] = c
DigitValue(c) == (CHOOSE k \in 1..Len(DigitChars) : DigitChars[k] = c) - 1

RECURSIVE LStrip(_)
LStrip(s) == IF s # <<>> /\ Head(s) = " " THEN LStrip(Tail(s)) ELSE s

RECURSIVE RStrip(_)
RStrip(s) == IF s # <<>> /\ s[Len(s)] = " " THEN RStrip(SubSeq(s, 1, Len(s) - 1)) ELSE s

\* str.strip()
strip(s) == RStrip(LStrip(s))

RECURSIVE DigitsValue(_, _)
DigitsValue(s, acc) ==
    IF s = <<>> THEN acc ELSE DigitsValue(Tail(s), acc * 10 + DigitValue(Head(s)))

AllDigits(s) == s # <<>> /\ \A k \in 1..Len(s) : IsDigit(s[k])

\* float(s) for the texts of the model: an optional sign, then digits, "nan"
\* or "inf"; anything else raises ValueError
float(s) ==
    LET signed == s # <<>> /\ Head(s) \in {"-", "+"}
        sign == IF s # <<>> /\ Head(s) = "-" THEN -1 ELSE 1
        body == IF signed THEN Tail(s) ELSE s
    IN  IF body = <<"n", "a", "n">> THEN [ok |-> TRUE, value |-> NaN]
        ELSE IF body = <<"i", "n", "f">> THEN [ok |-> TRUE, value |-> Infinity(sign)]
        ELSE IF AllDigits(body) THEN [ok |-> TRUE, value |-> Num(sign * DigitsValue(body, 0))]
        ELSE [ok |-> FALSE, value |-> NaN]

\* texts a user replies with
ReplyTexts ==
    { <<"a", "b", "c">>, <<"-", "5">>, <<"0">>, <<" ", "4", "0", " ">>,
      <<"1", "0", "0">>, <<"n", "a", "n">> }

(***************************************************************************)
(* Callback data: a string is a sequence of tokens, "_" a token of its own *)
(***************************************************************************)
\* str.split(sep)
RECURSIVE split(_, _)
split(s, sep) ==
    IF \A k \in 1..Len(s) : s[k] # sep THEN <<s>>
    ELSE LET k == CHOOSE k \in 1..Len(s) : s[k] = sep /\ \A j \in 1..(k - 1) : s[j] # sep
         IN  <<SubSeq(s, 1, k - 1)>> \o split(SubSeq(s, k + 1, Len(s)), sep)

\* the string a part of the callback data is, as a key of the store
Key(part) == IF Len(part) = 1 THEN part[1] ELSE "_"

\* constants.py:10
CALLBACK_CATEGORY_PREFIX == <<"cat", "_">>

\* constants.py:12-13
CALLBACK_SHARE_SRC == [yes |-> <<"share", "_", "yes">>, no |-> <<"share", "_", "no">>]

\* conversation_state_machine.py:132 documents the data of the sharing buttons
\* as share.yes_{transaction_id}
CALLBACK_SHARE_DOC == [yes |-> <<"share.yes">>, no |-> <<"share.no">>]

\* The handlers import names from `constants` that commons/constants.py does
\* not define (CONTEXT_RELATED_MESSAGE_IDS, CONTEXT_CONVERSATION_STATE), so the
\* constants module they run against is a later one than the repository's: its
\* sharing prefixes are those of commons/constants.py or those the handler
\* documents.
CallbackShareChoices == {CALLBACK_SHARE_SRC, CALLBACK_SHARE_DOC}

\* bot_utils.py:7-11
EXPENSE_CATEGORIES ==
    <<"Investment", "Home & Essentials", "Commute", "Discretionary", "Shopping",
      "Health & Wellbeing", "Miscellaneous">>

\* the characters of the index a category click carries
IndexText(i) == IF i = "-1" THEN <<"-", "1">> ELSE <<i>>

\* bot_utils.py get_category_keyboard: callback data of button i
get_category_keyboard(t, i) == CALLBACK_CATEGORY_PREFIX \o <<t, "_">> \o IndexText(i)

\* int(s) of a decimal text with an optional sign
int(s) == IF Head(s) = "-" THEN 0 - DigitsValue(Tail(s), 0) ELSE DigitsValue(s, 0)

\* list[k] of a Python list: positions 0 .. len(list) - 1 from the start,
\* -1 .. -len(list) from the end, IndexError (the empty sequence) otherwise
Subscript(list, k) ==
    IF k >= 0 /\ k < Len(list) THEN <<list[k + 1]>>
    ELSE IF k < 0 /\ k >= 0 - Len(list) THEN <<list[Len(list) + k + 1]>>
    ELSE <<>>

\* bot_utils.py get_sharing_type_keyboard: callback data of the two buttons
get_sharing_type_keyboard(t) ==
    [shared |-> callback_share.yes \o <<"_", t>>,
     solo   |-> callback_share.no \o <<"_", t>>]

\* category indexes a category click carries: the last of the list, one past
\* it, one before its first
CategoryIndexes == {"6", "7", "-1"}

(***************************************************************************)
(* persistence/models.py Transaction                                       *)
(***************************************************************************)
\* the amount column of the record of transaction t
AmountOf(t) == IF t = "t1" THEN Num(100) ELSE Num(40)

\* Transaction(transaction_id) with the defaults of the dataclass
Transaction(t) ==
    [transaction_id |-> t, amount |-> Num(0), category |-> "None",
     is_shared |-> FALSE, user_share |-> Num(0)]

\* Transaction.from_dict of the record of transaction t
from_dict(t) == [Transaction(t) EXCEPT !.amount = AmountOf(t)]

(***************************************************************************)
(* conversation_context.py ConversationContextManager                      *)
(* The store maps user and transaction id to <<>> (no entry) or <<entry>>;  *)
(* an entry's transaction is <<>> (not attached) or <<transaction>>.        *)
(***************************************************************************)
States == {"SELECTING_CATEGORY", "SELECTING_SHARING_TYPE", "ENTERING_SHARE_AMOUNT",
           "COMPLETED"}

Has(c, u, t) == t \in TxIds /\ c[u][t] # <<>>

Entry(c, u, t) == c[u][t][1]

\* a store that leaves an entry it already holds as it is
start_conversation_kept(c, u, transaction, conversation_state) ==
    IF c[u][transaction.transaction_id] # <<>> THEN c
    ELSE [c EXCEPT ![u][transaction.transaction_id] =
            <<[transaction |-> <<transaction>>, state |-> conversation_state,
               related_message_ids |-> {}]>>]

start_conversation(c, u, transaction, conversation_state) ==
    [c EXCEPT ![u][transaction.transaction_id] =
        <<[transaction |-> <<transaction>>, state |-> conversation_state,
           related_message_ids |-> {}]>>]

\* a store keyed by the transaction alone: the state is set for every user
update_state_of_all(c, u, t, conversation_state) ==
    [v \in Users |->
       IF t \in TxIds /\ c[v][t] # <<>>
       THEN [c[v] EXCEPT ![t] = <<[c[v][t][1] EXCEPT !.state = conversation_state]>>]
       ELSE c[v]]

update_state(c, u, t, conversation_state) ==
    IF Has(c, u, t)
    THEN [c EXCEPT ![u][t] = <<[Entry(c, u, t) EXCEPT !.state = conversation_state]>>]
    ELSE c

\* a store that starts from a placeholder whatever it holds
HeldTransactionFresh(c, u, t) == Transaction(t)

\* the held Transaction, a placeholder when none is attached
HeldTransaction(c, u, t) ==
    IF Entry(c, u, t).transaction = <<>> THEN Transaction(t)
    ELSE Entry(c, u, t).transaction[1]

\* a store that forgets the category it is given
update_category_dropped(c, u, t, category) == c

update_category(c, u, t, category) ==
    IF Has(c, u, t)
    THEN [c EXCEPT ![u][t] = <<[Entry(c, u, t) EXCEPT !.transaction =
                <<[HeldTransaction(c, u, t) EXCEPT !.category = category]>>]>>]
    ELSE c

update_sharing_status(c, u, t, is_shared) ==
    IF Has(c, u, t)
    THEN [c EXCEPT ![u][t] = <<[Entry(c, u, t) EXCEPT !.transaction =
                <<[HeldTransaction(c, u, t) EXCEPT !.is_shared = is_shared]>>]>>]
    ELSE c

\* a store that forgets the share amount it is given
update_user_share_dropped(c, u, t, share_amount) == c

update_user_share(c, u, t, share_amount) ==
    IF Has(c, u, t)
    THEN [c EXCEPT ![u][t] = <<[Entry(c, u, t) EXCEPT !.transaction =
                <<[HeldTransaction(c, u, t) EXCEPT !.user_share = share_amount]>>]>>]
    ELSE c

\* the transaction ids of u's conversations in target_state
get_conversations_by_state(c, u, target_state) ==
    {t \in TxIds : Has(c, u, t) /\ Entry(c, u, t).state = target_state}

\* a store that keeps the entry it is told to end
end_conversation_kept(c, u, t) == c

end_conversation(c, u, t) ==
    IF Has(c, u, t) THEN [c EXCEPT ![u][t] = <<>>] ELSE c

\* link_message of the specification (the method is called by the state
\* machine and is not in the repository's conversation_context.py)
add_message_id_to_conversation_context(c, u, t, message_id) ==
    IF Has(c, u, t)
    THEN [c EXCEPT ![u][t] = <<[Entry(c, u, t) EXCEPT !.related_message_ids =
                                   @ \cup {message_id}]>>]
    ELSE c

(***************************************************************************)
(* commons/utils.py: fingerprint and transaction id (SpecFingerprint)      *)
(***************************************************************************)
\* the texts a field of a transaction is formatted to: empty, without and
\* with the delimiter
FieldTexts == { <<>>, <<"a">>, <<"a", "|", "a">> }

\* a fingerprint that leaves the bank out
get_fingerprint_without_bank(date, description, amount, bank) ==
    date \o <<"|">> \o description \o <<"|">> \o amount

\* utils.py:4-5  f"{date}|{description}|{amount}|{bank}"
get_fingerprint_for_transaction(date, description, amount, bank) ==
    date \o <<"|">> \o description \o <<"|">> \o amount \o <<"|">> \o bank

\* utils.py:8-11: the hex text of the MD5 digest of the fingerprint, a digest
\* taken to be free of collisions
generate_transaction_id(fingerprint) == [md5 |-> fingerprint]

\* utils.py:14-16
get_transaction_id(date, description, amount, bank) ==
    generate_transaction_id(get_fingerprint_for_transaction(date, description, amount, bank))

\* the two transactions compared before any was given
NoTransactions == [i \in 1..2 |-> [k \in 1..4 |-> <<"a">>]]

\* field k of transaction i becomes text v, and the fingerprints and ids of
\* the two transactions (date, description, amount, bank) are computed
IdentifyTransactions(i, k, v) ==
    LET old == IF call.op = "get_transaction_id" THEN call.transactions
               ELSE NoTransactions
        new == [old EXCEPT ![i][k] = v]
    IN  /\ call' = [op |-> "get_transaction_id", transactions |-> new,
                    fingerprints |->
                      [j \in 1..2 |-> get_fingerprint_for_transaction(
                                          new[j][1], new[j][2], new[j][3], new[j][4])],
                    ids |->
                      [j \in 1..2 |-> get_transaction_id(
                                          new[j][1], new[j][2], new[j][3], new[j][4])]]
        /\ UNCHANGED <<pollVars, convVars, wrapVars, taskVars>>

NextFingerprint ==
    \E i \in 1..2, k \in 1..4, v \in FieldTexts : IdentifyTransactions(i, k, v)

(***************************************************************************)
(* The store's operations on their own (specification SpecStore)           *)
(***************************************************************************)
\* what a cell (u, t) of a store holds before a call: nothing, an entry with
\* no Transaction attached, an entry with the answers of a conversation
StoreCells(t) ==
    { <<>>,
      <<[transaction |-> <<>>, state |-> "SELECTING_CATEGORY",
         related_message_ids |-> {}]>>,
      <<[transaction |-> <<[from_dict(t) EXCEPT !.category = "Commute",
                                                 !.is_shared = TRUE,
                                                 !.user_share = Num(40)]>>,
         state |-> "ENTERING_SHARE_AMOUNT", related_message_ids |-> {1}]>> }

\* the stores a call is made on
Stores ==
    {c \in [Users -> [TxIds -> UNION {StoreCells(t) : t \in TxIds}]] :
        /\ \A u \in Users, t \in TxIds : c[u][t] \in StoreCells(t)
        /\ c["u2"]["t2"] = <<>>}

StoreCall(op, c, u, t, value, after) ==
    [op |-> op, before |-> c, user |-> u, tx |-> t, value |-> value, after |-> after]

StartConversation(c, u, t, conversation_state) ==
    /\ call' = StoreCall("start_conversation", c, u, t,
                         <<from_dict(t), conversation_state>>,
                         start_conversation(c, u, from_dict(t), conversation_state))
    /\ UNCHANGED <<pollVars, convVars, wrapVars, taskVars>>

UpdateCategory(c, u, t, category) ==
    /\ call' = StoreCall("update_category", c, u, t, category,
                         update_category(c, u, t, category))
    /\ UNCHANGED <<pollVars, convVars, wrapVars, taskVars>>

UpdateSharingStatus(c, u, t, is_shared) ==
    /\ call' = StoreCall("update_sharing_status", c, u, t, is_shared,
                         update_sharing_status(c, u, t, is_shared))
    /\ UNCHANGED <<pollVars, convVars, wrapVars, taskVars>>

UpdateUserShare(c, u, t, share_amount) ==
    /\ call' = StoreCall("update_user_share", c, u, t, share_amount,
                         update_user_share(c, u, t, share_amount))
    /\ UNCHANGED <<pollVars, convVars, wrapVars, taskVars>>

EndConversation(c, u, t) ==
    /\ call' = StoreCall("end_conversation", c, u, t, <<>>, end_conversation(c, u, t))
    /\ UNCHANGED <<pollVars, convVars, wrapVars, taskVars>>

\* telegram_bot.py:254-301 TransactionContext.conversations, the store of the
\* bot's own handlers: one entry per user
TransactionContexts ==
    [Users -> {<<>>} \cup {<<[transaction |-> t, category |-> category]>> :
                              t \in TxIds, category \in {"None", "Commute"}}]

\* telegram_bot.py:262-278 TransactionContext.start_conversation
TransactionContext_start_conversation(tc, u, t) ==
    [tc EXCEPT ![u] = <<[transaction |-> t, category |-> "None"]>>]

\* telegram_bot.py:492: category_selected of the bot opens the conversation of
\* the transaction whose button the user pressed
OpenForUser(tc, u, t) ==
    /\ call' = [op |-> "TransactionContext_start_conversation", before |-> tc,
                user |-> u, tx |-> t,
                after |-> TransactionContext_start_conversation(tc, u, t)]
    /\ UNCHANGED <<pollVars, convVars, wrapVars, taskVars>>

\* telegram_bot.py:297-300 TransactionContext.end_conversation
TransactionContext_end_conversation(tc, u) ==
    IF tc[u] # <<>> THEN [tc EXCEPT ![u] = <<>>] ELSE tc

\* telegram_bot.py:705-714 cancel_transaction: the store it leaves, what it
\* hands to a persistence sink and what it answers
cancel_transaction(tc, u) ==
    [store |-> TransactionContext_end_conversation(tc, u), written |-> <<>>,
     replied |-> "cancelled"]

CancelTransaction(tc, u) ==
    /\ call' = [op |-> "cancel_transaction", before |-> tc, user |-> u,
                after |-> cancel_transaction(tc, u).store,
                written |-> cancel_transaction(tc, u).written]
    /\ UNCHANGED <<pollVars, convVars, wrapVars, taskVars>>

(***************************************************************************)
(* persistence_wrapper.py PersistenceWrapper.write_transaction             *)
(***************************************************************************)
\* how the call of the sheet sink ends: it returns True, returns False, raises
SinkOutcomes == {"true", "false", "raise"}

\* the ways one run of complete_transaction can go: how the sink call ends,
\* whether the terminal message goes out and, when it does not, whether the
\* error message of the except branch goes out
CompletionRuns ==
    {r \in [sink : SinkOutcomes, sent : BOOLEAN, error_sent : BOOLEAN] :
        /\ r.sent => r.error_sent
        /\ ~r.sent => r.sink = "true"}

\* a wrapper that reports success whatever the sheet sink does
write_transaction_always_true(sink) == TRUE

\* PersistenceWrapper.write_transaction, as far as the sheet sink decides it:
\* True unless the call of the sink raises (the sink's own result is dropped)
write_transaction(sink) == sink # "raise"

\* the wrapper's three sinks, in the order of its constructor
Sinks == <<"sheet_manager", "firebase_manager", "postgres_manager">>

\* PersistenceWrapper.write_transaction with its three sinks ending as given:
\* the sinks it calls, in order, and what it returns.  The method returns from
\* inside the try around the sheet sink; the calls of the other two sinks are
\* commented out (lines 123-133).
wrapper_write_transaction(sheet, firebase, postgres) ==
    [attempted |-> <<Sinks[1]>>, result |-> write_transaction(sheet)]

\* transactions handed to the wrapper
WrapperTransactions ==
    {[from_dict(t) EXCEPT !.category = category, !.is_shared = is_shared,
                          !.user_share = IF is_shared THEN Num(0) ELSE AmountOf(t)] :
        t \in TxIds, category \in {EXPENSE_CATEGORIES[1], EXPENSE_CATEGORIES[7]},
        is_shared \in BOOLEAN}

NoCall == [called |-> FALSE]

\* one call of PersistenceWrapper.write_transaction(transaction)
WriteTransaction(transaction, sheet, firebase, postgres) ==
    /\ wrapper_call' =
         LET r == wrapper_write_transaction(sheet, firebase, postgres)
         IN  [called |-> TRUE, transaction |-> transaction, sheet |-> sheet,
              firebase |-> firebase, postgres |-> postgres,
              attempted |-> r.attempted, result |-> r.result]
    /\ UNCHANGED <<pollVars, convVars, callVars, taskVars>>

WrapInit == wrapper_call = NoCall /\ call = [op |-> "none"]

NextWrapper ==
    \E transaction \in WrapperTransactions, sheet, firebase, postgres \in SinkOutcomes :
       WriteTransaction(transaction, sheet, firebase, postgres)

(***************************************************************************)
(* conversation_state_machine.py ConversationStateMachine                  *)
(***************************************************************************)
\* what a handler run is recorded as in last_event: the handler, the user, the
\* transaction whose button was pressed or whose prompt was replied to, whether
\* its conversation existed when the event arrived, the button, the message
\* replied to and the reply's text, how the run ended, the id of the prompt it
\* sent, the terminal message, the transaction handed to the persistence wrapper
\* and what the wrapper reported, whether that conversation had been handed to
\* the wrapper before
Event(handler, u, t, outcome) ==
    [handler |-> handler, user |-> u, tx |-> t, existed |-> FALSE, button |-> "",
     reply_to |-> 0, text |-> <<>>, outcome |-> outcome, prompt |-> 0,
     completion |-> "none", written |-> <<>>, reported |-> "none", rewrite |-> FALSE]

\* a completion that answers with the 'updated' text whatever the wrapper reports
TerminalMessageAlwaysUpdated(success) == "updated"

\* lines 272-283: MSG_TRANSACTION_UPDATED on success, MSG_TRANSACTION_UPDATE_FAILED
\* otherwise
TerminalMessage(success) == IF success THEN "updated" ELSE "failed"

\* complete_transaction(update, user_id, transaction_id): `sink` is how the
\* persistence call ends, `sent` whether the terminal message goes out,
\* `error_sent` whether the error message of the except branch goes out.
\* Yields the store, the transaction handed to the persistence wrapper (if
\* any), what the wrapper reported, the message the user gets and whether an
\* exception leaves the method. `from_callback` tells a button press from a
\* text reply: lines 260-263 answer a missing entry through update.message,
\* which an Update always has as an attribute and which is None for a button
\* press, so that reply_text raises AttributeError outside the try.
complete_transaction(c, u, t, from_callback, sink, sent, error_sent) ==
    IF ~Has(c, u, t)
    THEN IF from_callback
         THEN [store |-> c, written |-> <<>>, reported |-> "none",
               message |-> "none", raised |-> TRUE]
         ELSE [store |-> c, written |-> <<>>, reported |-> "none",
               message |-> "context_not_found", raised |-> FALSE]
    ELSE IF Entry(c, u, t).transaction = <<>>
    THEN IF error_sent
         THEN [store |-> end_conversation(c, u, t), written |-> <<>>, reported |-> "none",
               message |-> "error", raised |-> FALSE]
         ELSE [store |-> c, written |-> <<>>, reported |-> "none",
               message |-> "none", raised |-> TRUE]
    ELSE LET held == Entry(c, u, t).transaction[1]
             transaction == [held EXCEPT !.user_share =
                                IF ~held.is_shared THEN held.amount ELSE held.user_share]
             c1 == [c EXCEPT ![u][t] =
                       <<[Entry(c, u, t) EXCEPT !.transaction = <<transaction>>]>>]
             success == write_transaction(sink)
             reported == IF success THEN "true" ELSE "false"
         IN  IF sent
             THEN [store |-> end_conversation(c1, u, t), written |-> <<transaction>>,
                   reported |-> reported,
                   message |-> TerminalMessage(success), raised |-> FALSE]
             ELSE IF error_sent
             THEN [store |-> end_conversation(c1, u, t), written |-> <<transaction>>,
                   reported |-> reported, message |-> "error", raised |-> FALSE]
             ELSE [store |-> c1, written |-> <<transaction>>,
                   reported |-> reported, message |-> "none", raised |-> TRUE]

\* handed_over after a handler run on (u, t) that left store c2 and handed
\* `written` to the persistence wrapper: the mark of a conversation ends with
\* the conversation
HandedOverAfter(h, c2, u, t, written) ==
    IF t \notin TxIds THEN h
    ELSE IF ~Has(c2, u, t) THEN [h EXCEPT ![u][t] = FALSE]
    ELSE IF written # <<>> THEN [h EXCEPT ![u][t] = TRUE]
    ELSE h

\* send_transaction_notification(transaction, user_id): the notification is
\* sent with the category keyboard and the conversation opened, or the send
\* raises TelegramError
SendTransactionNotification(u, t) ==
    /\ \E sent \in BOOLEAN :
         /\ conversations' = IF sent
                             THEN start_conversation(conversations, u, from_dict(t),
                                                     "SELECTING_CATEGORY")
                             ELSE conversations
         /\ keyboards' = IF sent /\ keyboards[u][t] = "none"
                         THEN [keyboards EXCEPT ![u][t] = "category"]
                         ELSE keyboards
         /\ handed_over' = IF sent THEN [handed_over EXCEPT ![u][t] = FALSE]
                           ELSE handed_over
         /\ last_event' = [Event("send_transaction_notification", u, t,
                                 IF sent THEN "opened" ELSE "send_failed")
                              EXCEPT !.existed = Has(conversations, u, t)]
    /\ UNCHANGED <<callback_share, user_ids, next_message_id>>

\* category_selected: user u presses button i of a category keyboard of t
CategorySelected(u, t, i) ==
    LET parts == split(get_category_keyboard(t, i), "_")
        transaction_id == Key(parts[2])
        category == Subscript(EXPENSE_CATEGORIES, int(parts[3]))
        c1 == update_category(conversations, u, transaction_id, category[1])
        e == [Event("category_selected", u, t, "none")
                 EXCEPT !.existed = Has(conversations, u, t), !.button = i]
    IN  /\ keyboards[u][t] # "none"
        /\ IF ~Has(conversations, u, transaction_id)
           THEN /\ conversations' = conversations
                /\ keyboards' = keyboards
                /\ last_event' = [e EXCEPT !.outcome = "transaction_not_found"]
           ELSE IF category = <<>>
           THEN \E error_edited \in BOOLEAN :
                  /\ conversations' = IF error_edited
                                      THEN end_conversation(conversations, u, transaction_id)
                                      ELSE conversations
                  /\ keyboards' = keyboards
                  /\ last_event' = [e EXCEPT !.outcome =
                                       IF error_edited THEN "error" ELSE "raised"]
           ELSE \E outcome \in {"category_set", "error", "raised"} :
                  /\ conversations' =
                        IF outcome = "category_set"
                        THEN update_state(c1, u, transaction_id, "SELECTING_SHARING_TYPE")
                        ELSE IF outcome = "error" THEN end_conversation(c1, u, transaction_id)
                        ELSE c1
                  /\ keyboards' = IF outcome = "category_set"
                                  THEN [keyboards EXCEPT ![u][t] = "sharing"]
                                  ELSE keyboards
                  /\ last_event' = [e EXCEPT !.outcome = outcome]
        /\ handed_over' = HandedOverAfter(handed_over, conversations', u,
                                          transaction_id, <<>>)
        /\ UNCHANGED <<callback_share, user_ids, next_message_id>>

\* is_shared = share_mode == CALLBACK_SHARE_YES
IsSharedMode(share_mode) == share_mode = callback_share.yes

\* sharing_type_selected: user u presses `button` of a sharing keyboard of t.
\* `fail` names the transport call of the shared branch that raises, if any.
SharingTypeSelected(u, t, button) ==
    LET parts == split(get_sharing_type_keyboard(t)[button], "_")
        share_mode == parts[1]
        transaction_id == Key(parts[2])
        is_shared == IsSharedMode(share_mode)
        c1 == update_sharing_status(conversations, u, transaction_id, is_shared)
        message_id == next_message_id[u]
        e == [Event("sharing_type_selected", u, t, "none")
                 EXCEPT !.existed = Has(conversations, u, t), !.button = button]
    IN  /\ keyboards[u][t] = "sharing"
        /\ IF ~Has(conversations, u, transaction_id)
           THEN /\ conversations' = conversations
                /\ last_event' = [e EXCEPT !.outcome = "context_not_found"]
                /\ UNCHANGED <<callback_share, user_ids, next_message_id, keyboards,
                               handed_over>>
           ELSE IF is_shared
           THEN \E fail \in {"none", "edit", "send"} :
                IF fail = "none"
                THEN /\ message_id <= MaxMessages
                     /\ conversations' =
                          update_state(
                            add_message_id_to_conversation_context(
                              c1, u, transaction_id, message_id),
                            u, transaction_id, "ENTERING_SHARE_AMOUNT")
                     /\ next_message_id' = [next_message_id EXCEPT ![u] = @ + 1]
                     /\ last_event' = [e EXCEPT !.outcome = "asked_share",
                                                !.prompt = message_id]
                     /\ UNCHANGED <<callback_share, user_ids, keyboards, handed_over>>
                ELSE /\ conversations' = c1
                     /\ last_event' = [e EXCEPT !.outcome = "error"]
                     /\ UNCHANGED <<callback_share, user_ids, next_message_id, keyboards,
                                    handed_over>>
           ELSE \E run \in CompletionRuns :
                LET r == complete_transaction(c1, u, transaction_id, TRUE,
                                              run.sink, run.sent, run.error_sent)
                IN  /\ conversations' = r.store
                    /\ last_event' = [e EXCEPT !.outcome = "solo", !.completion = r.message,
                                               !.written = r.written,
                                               !.reported = r.reported,
                                               !.rewrite = r.written # <<>>
                                                  /\ handed_over[u][transaction_id]]
                    /\ handed_over' = HandedOverAfter(handed_over, r.store, u,
                                                      transaction_id, r.written)
                    /\ UNCHANGED <<callback_share, user_ids, next_message_id, keyboards>>

\* a correlation by state alone, whatever message the reply answers
WaitingAnyPrompt(c, u, reply_to) ==
    get_conversations_by_state(c, u, "ENTERING_SHARE_AMOUNT")

\* a correlation that knows only the first prompt of a conversation
WaitingFirstPrompt(c, u, reply_to) ==
    {t \in get_conversations_by_state(c, u, "ENTERING_SHARE_AMOUNT") :
        /\ reply_to \in Entry(c, u, t).related_message_ids
        /\ \A m \in Entry(c, u, t).related_message_ids : reply_to <= m}

\* the conversations of u that wait for a share amount and own message reply_to
Waiting(c, u, reply_to) ==
    {t \in get_conversations_by_state(c, u, "ENTERING_SHARE_AMOUNT") :
        reply_to \in Entry(c, u, t).related_message_ids}

\* a validation without the check against the total
ValidateNoUpperBound(text, total_amount) ==
    LET parsed == float(strip(text))
    IN  IF ~parsed.ok THEN "invalid_format"
        ELSE IF FloatLt(parsed.value, Num(0)) THEN "negative"
        ELSE "accepted"

\* the checks of share_amount_entered on the text, in the order of the code
Validate(text, total_amount) ==
    LET parsed == float(strip(text))
    IN  IF ~parsed.ok THEN "invalid_format"
        ELSE IF FloatLt(parsed.value, Num(0)) THEN "negative"
        ELSE IF FloatGt(parsed.value, total_amount) THEN "exceeds_total"
        ELSE "accepted"

\* share_amount_entered: user u sends `text` in reply to message reply_to
\* (0: the message is not a reply; an id no prompt carries yet: a reply to
\* some other message of the chat)
ShareAmountEntered(u, reply_to, text) ==
    LET e == [Event("share_amount_entered", u, "_", "none") EXCEPT !.reply_to = reply_to]
        waiting == get_conversations_by_state(conversations, u, "ENTERING_SHARE_AMOUNT")
        matching == Waiting(conversations, u, reply_to)
    IN  IF reply_to = 0 \/ waiting = {} \/ matching = {}
        THEN /\ last_event' = [e EXCEPT !.outcome = IF reply_to = 0 THEN "not_a_reply"
                                              ELSE IF waiting = {} THEN "none_waiting"
                                              ELSE "no_match"]
             /\ UNCHANGED <<callback_share, user_ids, conversations, next_message_id,
                            keyboards, handed_over>>
        ELSE LET t == CHOOSE x \in matching : TRUE
                 total_amount == Entry(conversations, u, t).transaction[1].amount
                 verdict == Validate(text, total_amount)
                 share_amount == float(strip(text)).value
                 message_id == next_message_id[u]
                 e1 == [e EXCEPT !.tx = t, !.existed = TRUE, !.text = text,
                                 !.outcome = verdict]
             IN  IF verdict # "accepted"
                 THEN /\ message_id <= MaxMessages
                      /\ \E prompted \in BOOLEAN :
                           /\ conversations' =
                                IF prompted
                                THEN add_message_id_to_conversation_context(
                                       conversations, u, t, message_id)
                                ELSE conversations
                           /\ next_message_id' =
                                IF prompted THEN [next_message_id EXCEPT ![u] = @ + 1]
                                ELSE next_message_id
                           /\ last_event' = [e1 EXCEPT !.prompt =
                                                IF prompted THEN message_id ELSE 0]
                      /\ UNCHANGED <<callback_share, user_ids, keyboards, handed_over>>
                 ELSE \E run \in CompletionRuns :
                        LET c1 == update_user_share(conversations, u, t, share_amount)
                            r == complete_transaction(c1, u, t, FALSE,
                                                      run.sink, run.sent, run.error_sent)
                        IN  /\ conversations' = r.store
                            /\ last_event' = [e1 EXCEPT !.completion = r.message,
                                                        !.written = r.written,
                                                        !.reported = r.reported,
                                                        !.rewrite = r.written # <<>>
                                                           /\ handed_over[u][t]]
                            /\ handed_over' = HandedOverAfter(handed_over, r.store, u, t,
                                                              r.written)
                            /\ UNCHANGED <<callback_share, user_ids, next_message_id,
                                           keyboards>>

ConvInit ==
    /\ callback_share \in CallbackShareChoices
    /\ conversations = [u \in Users |-> [t \in TxIds |-> <<>>]]
    /\ next_message_id = [u \in Users |-> 1]
    /\ user_ids = {"u1"}
    /\ keyboards = [u \in Users |-> [t \in TxIds |-> "none"]]
    /\ handed_over = [u \in Users |-> [t \in TxIds |-> FALSE]]
    /\ last_event = Event("none", "_", "_", "none")

(***************************************************************************)
(* Handlers of several users, taken apart at their awaits (SpecUsers)      *)
(***************************************************************************)
\* the transaction the users of SpecUsers are notified of, the texts they
\* reply with
SharedTx == "t1"
UsersTexts == { <<"a", "b", "c">>, <<" ", "4", "0", " ">> }

\* a store operation a waiting handler still has to make
Todo(op, t, arg) == [op |-> op, tx |-> t, arg |-> arg]

\* the operations of `todo`, in order, by user u on store c
RECURSIVE RunTodo(_, _, _)
RunTodo(c, u, todo) ==
    IF todo = <<>> THEN c
    ELSE LET o == Head(todo)
             c1 == IF o.op = "update_state" THEN update_state(c, u, o.tx, o.arg)
                   ELSE IF o.op = "end_conversation" THEN end_conversation(c, u, o.tx)
                   ELSE add_message_id_to_conversation_context(c, u, o.tx, o.arg)
         IN  RunTodo(c1, u, Tail(todo))

\* complete_transaction up to its first await (lines 258-270): the held
\* Transaction gets user_share = amount unless it is shared
CompletionBegin(c, u, t) ==
    IF Has(c, u, t) /\ Entry(c, u, t).transaction # <<>>
                   /\ ~Entry(c, u, t).transaction[1].is_shared
    THEN update_user_share(c, u, t, Entry(c, u, t).transaction[1].amount)
    ELSE c

\* category_selected from the answer of the callback to the await of the edit
\* (lines 84-102), and what it does after it (lines 108-124); `edit` is how
\* the edit of the message ends, "raised" when the error message fails too
category_selected_begin(c, u, t, i, edit) ==
    LET parts == split(get_category_keyboard(t, i), "_")
        transaction_id == Key(parts[2])
        category == Subscript(EXPENSE_CATEGORIES, int(parts[3]))
    IN  IF ~Has(c, u, transaction_id) THEN [store |-> c, todo |-> <<>>, prompted |-> FALSE]
        ELSE IF category = <<>>
        THEN [store |-> c, prompted |-> FALSE,
              todo |-> IF edit = "raised" THEN <<>>
                       ELSE <<Todo("end_conversation", transaction_id, 0)>>]
        ELSE [store |-> update_category(c, u, transaction_id, category[1]),
              prompted |-> FALSE,
              todo |-> IF edit = "ok"
                       THEN <<Todo("update_state", transaction_id, "SELECTING_SHARING_TYPE")>>
                       ELSE IF edit = "error"
                       THEN <<Todo("end_conversation", transaction_id, 0)>>
                       ELSE <<>>]

\* sharing_type_selected up to the await of its first message (lines 131-160,
\* 175, 258-270) and what it does after it (lines 168-173, 307); `sent` is
\* whether its messages go out
sharing_type_selected_begin(c, u, t, button, message_id, sent) ==
    LET parts == split(get_sharing_type_keyboard(t)[button], "_")
        transaction_id == Key(parts[2])
        is_shared == IsSharedMode(parts[1])
        c1 == update_sharing_status(c, u, transaction_id, is_shared)
    IN  IF ~Has(c, u, transaction_id) THEN [store |-> c, todo |-> <<>>, prompted |-> FALSE]
        ELSE IF is_shared
        THEN [store |-> c1, prompted |-> sent,
              todo |-> IF sent
                       THEN <<Todo("add_message_id", transaction_id, message_id),
                              Todo("update_state", transaction_id, "ENTERING_SHARE_AMOUNT")>>
                       ELSE <<>>]
        ELSE [store |-> CompletionBegin(c1, u, transaction_id), prompted |-> FALSE,
              todo |-> IF sent THEN <<Todo("end_conversation", transaction_id, 0)>>
                       ELSE <<>>]

\* share_amount_entered up to the await of its first message (lines 188-250,
\* 258-270) and what it does after it (lines 222-248, 307)
share_amount_entered_begin(c, u, reply_to, text, message_id, sent) ==
    LET matching == Waiting(c, u, reply_to)
    IN  IF reply_to = 0 \/ matching = {} THEN [store |-> c, todo |-> <<>>, prompted |-> FALSE]
        ELSE LET t == CHOOSE x \in matching : TRUE
                 verdict == Validate(text, Entry(c, u, t).transaction[1].amount)
             IN  IF verdict # "accepted"
                 THEN [store |-> c, prompted |-> sent,
                       todo |-> IF sent THEN <<Todo("add_message_id", t, message_id)>>
                                ELSE <<>>]
                 ELSE [store |-> CompletionBegin(
                                   update_user_share(c, u, t, float(strip(text)).value),
                                   u, t),
                       prompted |-> FALSE,
                       todo |-> IF sent THEN <<Todo("end_conversation", t, 0)>> ELSE <<>>]

\* user u's handler runs up to its await: r is what it makes of the store, rs
\* what it makes of the store of the handlers run without a break
BeginHandler(u, r, rs) ==
    /\ tasks[u] = <<>>
    /\ r.prompted => next_message_id[u] <= MaxMessages
    /\ conversations' = r.store
    /\ tasks' = [tasks EXCEPT ![u] = r.todo]
    /\ serial' = RunTodo(rs.store, u, rs.todo)
    /\ next_message_id' = IF r.prompted THEN [next_message_id EXCEPT ![u] = @ + 1]
                          ELSE next_message_id
    /\ actor' = u
    /\ UNCHANGED <<callback_share, user_ids, keyboards, handed_over, last_event>>

\* send_transaction_notification for user u, after the await of the send
UserNotified(u) ==
    /\ tasks[u] = <<>>
    /\ conversations' = start_conversation(conversations, u, from_dict(SharedTx),
                                           "SELECTING_CATEGORY")
    /\ serial' = start_conversation(serial, u, from_dict(SharedTx), "SELECTING_CATEGORY")
    /\ actor' = u
    /\ UNCHANGED <<callback_share, user_ids, next_message_id, keyboards, handed_over,
                   last_event, tasks>>

UserCategoryClick(u, i, edit) ==
    BeginHandler(u, category_selected_begin(conversations, u, SharedTx, i, edit),
                    category_selected_begin(serial, u, SharedTx, i, edit))

UserSharingClick(u, button, sent) ==
    BeginHandler(u, sharing_type_selected_begin(conversations, u, SharedTx, button,
                                                next_message_id[u], sent),
                    sharing_type_selected_begin(serial, u, SharedTx, button,
                                                next_message_id[u], sent))

UserReply(u, reply_to, text, sent) ==
    BeginHandler(u, share_amount_entered_begin(conversations, u, reply_to, text,
                                               next_message_id[u], sent),
                    share_amount_entered_begin(serial, u, reply_to, text,
                                               next_message_id[u], sent))

\* the handler of user u goes on after its await and ends
UserResume(u) ==
    /\ tasks[u] # <<>>
    /\ conversations' = RunTodo(conversations, u, tasks[u])
    /\ tasks' = [tasks EXCEPT ![u] = <<>>]
    /\ actor' = u
    /\ UNCHANGED <<callback_share, user_ids, next_message_id, keyboards, handed_over,
                   last_event, serial>>

NextUsers ==
    \/ \E u \in Users : UserNotified(u) /\ UNCHANGED <<pollVars, wrapVars, callVars>>
    \/ \E u \in Users, i \in {"6", "7"}, edit \in {"ok", "error", "raised"} :
         UserCategoryClick(u, i, edit) /\ UNCHANGED <<pollVars, wrapVars, callVars>>
    \/ \E u \in Users, button \in {"shared", "solo"}, sent \in BOOLEAN :
         UserSharingClick(u, button, sent) /\ UNCHANGED <<pollVars, wrapVars, callVars>>
    \/ \E u \in Users, reply_to \in 0..MaxMessages, text \in UsersTexts, sent \in BOOLEAN :
         UserReply(u, reply_to, text, sent) /\ UNCHANGED <<pollVars, wrapVars, callVars>>
    \/ \E u \in Users : UserResume(u) /\ UNCHANGED <<pollVars, wrapVars, callVars>>

TaskInit ==
    /\ tasks = [u \in Users |-> <<>>]
    /\ serial = [u \in Users |-> [t \in TxIds |-> <<>>]]
    /\ actor = "none"

Init == PollInit /\ ConvInit /\ WrapInit /\ TaskInit

\* the handlers of the two users, taken apart at their awaits
SpecUsers == Init /\ [][NextUsers]_vars

\* the poll alone: no conversation is ever opened
InitPoll == PollInit /\ ConvInit /\ WrapInit /\ TaskInit
              /\ callback_share = CALLBACK_SHARE_SRC

\* the persistence wrapper alone
SpecWrapper == InitPoll /\ [][NextWrapper]_vars

SpecPoll == InitPoll /\ [][NextPoll]_vars

\* a step of caller p inside a cycle it has begun
CycleStep(p) ==
    (CfuFetch(p) \/ CfuAdvance(p) \/ CfuNotify(p) \/ CfuReturn(p))
      /\ UNCHANGED <<convVars, wrapVars, callVars, taskVars>>

\* telegram_bot.py:759 run_repeating(periodic_check_task, interval=5): the job
\* queue starts the periodic cycle again and again
ScheduledCycle == CfuRead("periodic") /\ UNCHANGED <<convVars, wrapVars, callVars, taskVars>>

\* each call a coroutine awaits returns or raises, and the event loop takes
\* the coroutines that can go on in turn: neither a begun cycle nor the job
\* queue's job waits for ever, however often /check is used
SpecPollFair ==
    /\ InitPoll /\ [][NextPoll]_vars
    /\ \A p \in Procs : SF_vars(CycleStep(p))
    /\ SF_vars(ScheduledCycle)

\* fingerprints and transaction ids alone
SpecFingerprint == InitPoll /\ [][NextFingerprint]_vars

\* complete_transaction on its own: a run of it for (u, t) on store c
CompleteTransaction(c, u, t, from_callback, run) ==
    /\ call' = [op |-> "complete_transaction", before |-> c, user |-> u, tx |-> t,
                from_callback |-> from_callback,
                result |-> complete_transaction(c, u, t, from_callback,
                                                run.sink, run.sent, run.error_sent)]
    /\ UNCHANGED <<pollVars, convVars, wrapVars, taskVars>>

NextStore ==
    \/ \E c \in Stores, u \in Users, t \in TxIds : EndConversation(c, u, t)
    \/ \E tc \in TransactionContexts, u \in Users : CancelTransaction(tc, u)
    \/ \E tc \in TransactionContexts, u \in Users, t \in TxIds : OpenForUser(tc, u, t)
    \/ \E c \in Stores, u \in Users, t \in TxIds :
         StartConversation(c, u, t, "SELECTING_CATEGORY")
    \/ \E c \in Stores, u \in Users, t \in TxIds : UpdateCategory(c, u, t, "Shopping")
    \/ \E c \in Stores, u \in Users, t \in TxIds, is_shared \in BOOLEAN :
         UpdateSharingStatus(c, u, t, is_shared)
    \/ \E c \in Stores, u \in Users, t \in TxIds : UpdateUserShare(c, u, t, Num(100))
    \/ \E c \in Stores, u \in Users, t \in TxIds, from_callback \in BOOLEAN,
          run \in CompletionRuns : CompleteTransaction(c, u, t, from_callback, run)

\* the store's operations alone
SpecStore == InitPoll /\ [][NextStore]_vars

\* one poll cycle alone
SpecRead == InitPoll /\ [][NextRead]_vars

Next ==
    \/ \E u \in user_ids, t \in TxIds : SendTransactionNotification(u, t) /\ UNCHANGED <<pollVars, wrapVars, callVars, taskVars>>
    \/ \E u \in user_ids, t \in TxIds, i \in CategoryIndexes :
         CategorySelected(u, t, i) /\ UNCHANGED <<pollVars, wrapVars, callVars, taskVars>>
    \/ \E u \in user_ids, t \in TxIds, button \in {"shared", "solo"} :
         SharingTypeSelected(u, t, button) /\ UNCHANGED <<pollVars, wrapVars, callVars, taskVars>>
    \/ \E u \in user_ids, reply_to \in 0..MaxMessages, text \in ReplyTexts :
         ShareAmountEntered(u, reply_to, text) /\ UNCHANGED <<pollVars, wrapVars, callVars, taskVars>>

Spec == Init /\ [][Next]_vars

(***************************************************************************)
(* Properties of the cursor (checked under SpecPoll)                       *)
(***************************************************************************)
WellFormed(i) == i < Len(rows) /\ Row(rows, i) >= min_expected_columns

OtherProc(p) == CHOOSE q \in Procs : q # p

\* C1: on an append-only sheet, with every poll starting from the cursor the
\* previous poll left, no row is returned twice, only rows with all required
\* fields are returned, the cursor never passes such a row that was not
\* returned, and a poll that read a sheet with a full header leaves every such
\* row returned exactly once.
ExactlyOnce ==
    appendOnly =>
      /\ \A i \in RowIdx :
           /\ returned[i] <= 1
           /\ returned[i] = 1 => WellFormed(i)
           /\ (i <= config_lpr /\ WellFormed(i)) => returned[i] = 1
      /\ (lastPoll.unchanged /\ lastPoll.readOk /\ Len(rows) > 0
            /\ Row(rows, 0) >= min_expected_columns)
           => \A i \in RowIdx : WellFormed(i) => returned[i] = 1

\* a second poll returns row 2 alone, row 1 having been returned before
ExactlyOnceWitness ==
    /\ appendOnly
    /\ \E p \in Procs : pc[p] = "notify" /\ new_transactions[p] = <<2>>
                          /\ last_processed_row[p] = 1
    /\ returned[1] = 1

\* C2: get_new_rows never returns a cursor below the one it was given, and
\* neither the cursor in memory nor the saved cursor ever decreases, whatever
\* the sheet holds (rows may have been deleted below the cursor).
CursorMonotone ==
    [][ /\ config_lpr' >= config_lpr
        /\ file_lpr' >= file_lpr
        /\ \A p \in Procs : (pc[p] = "fetch" /\ pc'[p] = "advance")
                                => new_last_row'[p] >= last_processed_row[p] ]_vars

\* a poll was made of a sheet that is shorter than the cursor
CursorMonotoneWitness ==
    \E p \in Procs : /\ pc[p] = "advance"
                      /\ lastPoll.unchanged /\ lastPoll.readOk
                      /\ Len(rows) > 0
                      /\ Len(rows) - 1 < last_processed_row[p]

\* C3: a poll that returns no records returns the cursor it was given, and the
\* cycle of check_for_updates it belongs to does not write the cursor.
EmptyPollLeavesCursor ==
    /\ [](\A p \in Procs :
            (pc[p] \in {"advance", "return"} /\ new_transactions[p] = <<>>)
              => new_last_row[p] = last_processed_row[p] /\ ~wrote[p])
    /\ [][\A p \in Procs :
            (pc[p] = "advance" /\ pc'[p] # "advance" /\ new_transactions[p] = <<>>)
              => config_lpr' = config_lpr /\ file_lpr' = file_lpr]_vars

\* a cycle ends whose poll read a sheet with a full header and rows after the
\* cursor, all of them short
EmptyPollWitness ==
    \E p \in Procs : /\ pc[p] = "return" /\ new_transactions[p] = <<>>
                      /\ pc[OtherProc(p)] = "idle"
                      /\ lastPoll.unchanged /\ lastPoll.readOk
                      /\ Len(rows) > last_processed_row[p] + 1
                      /\ Row(rows, 0) >= min_expected_columns

NotifiedBeforeCovered ==
    \A i \in RowIdx : (i <= file_lpr /\ returned[i] >= 1) => notifiedBy[i] # {}

\* C6: of the two callers of check_for_updates at most one is between its read
\* of the cursor and its advance, and no record is returned or notified by
\* both.
PollsExclusive ==
    /\ \A p \in Procs : pc[p] \in {"fetch", "advance"}
                          => pc[OtherProc(p)] \notin {"fetch", "advance"}
    /\ \A i \in RowIdx : returned[i] <= 1 /\ Cardinality(notifiedBy[i]) <= 1

\* the /check poll has returned records while the periodic cycle is still
\* sending its notifications
PollsExclusiveWitness ==
    /\ pc["periodic"] = "notify"
    /\ pc["check_cmd"] = "advance"
    /\ new_transactions["check_cmd"] # <<>>

(***************************************************************************)
(* Properties of the conversation (checked under Spec)                     *)
(***************************************************************************)
\* the text is a number v with 0 <= v <= total
InRange(text, total) ==
    LET parsed == float(strip(text))
    IN  /\ parsed.ok
        /\ parsed.value.k = "num"
        /\ 0 <= parsed.value.v
        /\ parsed.value.v <= total.v

\* the text is unparseable, negative, or greater than the total
OutOfRange(text, total) ==
    LET parsed == float(strip(text))
    IN  \/ ~parsed.ok
        \/ FloatLt(parsed.value, Num(0))
        \/ FloatGt(parsed.value, total)

RejectedOutcomes == {"invalid_format", "negative", "exceeds_total"}

\* C7 as stated: a reply correlated to a waiting conversation is accepted
\* exactly when its text is a number v with 0 <= v <= total; an accepted reply
\* hands the transaction with user_share = v to completion.
ShareAcceptedIffInRange ==
    (last_event.handler = "share_amount_entered" /\ last_event.tx \in TxIds)
      => /\ last_event.outcome = "accepted"
              <=> InRange(last_event.text, AmountOf(last_event.tx))
         /\ last_event.outcome = "accepted"
              => /\ last_event.written # <<>>
                 /\ last_event.written[1].user_share
                      = float(strip(last_event.text)).value

\* C8: a reply whose text is unparseable, negative or greater than the total
\* leaves the conversation in the store in ENTERING_SHARE_AMOUNT, leaves the
\* held transaction (user_share included) as it was, and hands nothing to the
\* persistence wrapper.
RejectionKeepsConversation ==
    [][\A u \in Users, t \in TxIds :
         (/\ last_event'.handler = "share_amount_entered"
          /\ last_event'.user = u /\ last_event'.tx = t
          /\ OutOfRange(last_event'.text, AmountOf(t)))
         => /\ Has(conversations', u, t)
            /\ Entry(conversations', u, t).state = "ENTERING_SHARE_AMOUNT"
            /\ Entry(conversations', u, t).transaction
                 = Entry(conversations, u, t).transaction
            /\ last_event'.written = <<>>
            /\ last_event'.completion = "none"]_vars

\* a reply with a negative amount was rejected and re-prompted
RejectionWitness ==
    /\ last_event.handler = "share_amount_entered"
    /\ last_event.outcome = "negative"
    /\ last_event.prompt # 0
    /\ last_event.tx \in TxIds
    /\ Has(conversations, last_event.user, last_event.tx)

SoloCompletes ==
    (/\ last_event.handler = "sharing_type_selected"
     /\ last_event.button = "solo"
     /\ last_event.existed)
    => /\ last_event.written # <<>>
       /\ last_event.written[1].transaction_id = last_event.tx
       /\ ~last_event.written[1].is_shared
       /\ last_event.written[1].user_share = AmountOf(last_event.tx)

\* the conversations of u that are in ENTERING_SHARE_AMOUNT and have message x
\* among their related_message_ids, in store c
Targets(c, u, x) ==
    {t \in TxIds : /\ c[u][t] # <<>>
                   /\ c[u][t][1].state = "ENTERING_SHARE_AMOUNT"
                   /\ x \in c[u][t][1].related_message_ids}

\* C11: a free-text message of user u replying to message x changes no entry
\* of the store but that of a conversation of u in ENTERING_SHARE_AMOUNT with x
\* among its related_message_ids; when the message is no reply or no such
\* conversation exists, no entry changes, no prompt is sent and nothing is
\* handed to the persistence wrapper.
ReplyTouchesOnlyItsConversation ==
    [][last_event'.handler = "share_amount_entered"
        => LET u == last_event'.user
               x == last_event'.reply_to
           IN  /\ \A v \in Users, t \in TxIds :
                    (v # u \/ t \notin Targets(conversations, u, x))
                      => conversations'[v][t] = conversations[v][t]
               /\ (x = 0 \/ Targets(conversations, u, x) = {})
                    => /\ conversations' = conversations
                       /\ next_message_id' = next_message_id
                       /\ last_event'.prompt = 0
                       /\ last_event'.completion = "none"
                       /\ last_event'.written = <<>>]_vars

\* two conversations of the user waited for a share amount; the reply to the
\* prompt of t1 was accepted and the conversation of t2 still waits
ReplyWitness ==
    /\ last_event.handler = "share_amount_entered"
    /\ last_event.outcome = "accepted"
    /\ last_event.tx = "t1"
    /\ last_event.written # <<>>
    /\ \E x \in 1..MaxMessages :
         x # last_event.reply_to /\ Targets(conversations, last_event.user, x) = {"t2"}

\* C12: when complete_transaction ran for an existing conversation and its
\* terminal message went out, the entry is gone from the store whether the
\* persistence wrapper reported success or failure, and the message is the
\* 'updated' text exactly when the wrapper reported success, the 'failed' text
\* exactly when it reported failure.
CompletionEndsConversation ==
    [][last_event'.completion \in {"updated", "failed"}
        => /\ last_event'.tx \in TxIds
           /\ Has(conversations, last_event'.user, last_event'.tx)
           /\ ~Has(conversations', last_event'.user, last_event'.tx)
           /\ last_event'.reported \in {"true", "false"}
           /\ last_event'.reported = "true" <=> last_event'.completion = "updated"
           /\ last_event'.reported = "false" <=> last_event'.completion = "failed"]_vars

\* a completion whose persistence call reported failure: the 'failed' text was
\* sent and the entry is gone
CompletionFailedWitness ==
    /\ last_event.completion = "failed"
    /\ last_event.reported = "false"
    /\ last_event.written # <<>>
    /\ ~Has(conversations, last_event.user, last_event.tx)

\* C13 as stated: whatever raises during completion, the entry of the
\* conversation is gone from the store once complete_transaction has run for
\* it, and unless the terminal message went out the user got the generic
\* error.
CompletionCleansUp ==
    last_event.written # <<>>
      => /\ ~Has(conversations, last_event.user, last_event.tx)
         /\ last_event.completion \in {"updated", "failed", "error"}

\* C14 as stated: write_transaction is called at most once for a conversation:
\* no handler run hands a conversation to the persistence wrapper that was
\* handed to it before.
WrittenOncePerConversation == ~last_event.rewrite

\* C18: the transaction a handler run hands to the persistence wrapper has the
\* id and the amount of the record, the category the store held for the
\* conversation (the one the user chose), and either is_shared = false with
\* user_share = amount (always so when the run is a solo click) or is_shared =
\* true, as the store held it, with user_share = the amount of the accepted
\* reply.
WrittenTransactionFaithful ==
    [][last_event'.written # <<>>
        => LET u == last_event'.user
               t == last_event'.tx
               w == last_event'.written[1]
               held == Entry(conversations, u, t).transaction[1]
           IN  /\ Has(conversations, u, t)
               /\ w.transaction_id = t
               /\ w.amount = AmountOf(t)
               /\ w.category = held.category
               /\ last_event'.handler = "sharing_type_selected"
                    => ~w.is_shared /\ last_event'.button = "solo"
               /\ last_event'.handler = "share_amount_entered"
                    => w.is_shared = held.is_shared
               /\ ~w.is_shared => w.user_share = AmountOf(t)
               /\ w.is_shared => /\ last_event'.handler = "share_amount_entered"
                                 /\ w.user_share = float(strip(last_event'.text)).value]_vars

\* the reply " 40 " to the share prompt of t1 was accepted: t1 was handed over
\* as shared with user_share = 40 and the category chosen
WrittenSharedWitness ==
    /\ last_event.handler = "share_amount_entered"
    /\ last_event.tx = "t1"
    /\ last_event.written # <<>>
    /\ last_event.written[1].is_shared
    /\ last_event.written[1].user_share = Num(40)
    /\ last_event.written[1].category = EXPENSE_CATEGORIES[7]

\* C19: the callback data of button k of the category keyboard of t names t
\* and k; and a category click with an index inside the category list on a
\* conversation in SELECTING_CATEGORY, when the edit that shows the sharing
\* keyboard goes out, leaves the conversation in the store in
\* SELECTING_SHARING_TYPE with the entry of the list at that index as the held
\* transaction's category and nothing else of the entry changed.
CategoryClickSetsCategory ==
    /\ [](\A t \in TxIds, k \in 0..(Len(EXPENSE_CATEGORIES) - 1) :
            LET parts == split(get_category_keyboard(t, DigitChars[k + 1]), "_")
            IN  Len(parts) = 3 /\ Key(parts[2]) = t /\ int(parts[3]) = k)
    /\ [][\A u \in Users, t \in TxIds :
            (/\ last_event'.handler = "category_selected"
             /\ last_event'.user = u /\ last_event'.tx = t
             /\ Has(conversations, u, t)
             /\ Entry(conversations, u, t).state = "SELECTING_CATEGORY"
             /\ int(IndexText(last_event'.button)) \in 0..(Len(EXPENSE_CATEGORIES) - 1)
             /\ last_event'.outcome \notin {"error", "raised"})
            => /\ Has(conversations', u, t)
               /\ Entry(conversations', u, t).state = "SELECTING_SHARING_TYPE"
               /\ Entry(conversations', u, t).transaction
                    = <<[Entry(conversations, u, t).transaction[1] EXCEPT
                           !.category =
                              EXPENSE_CATEGORIES[int(IndexText(last_event'.button)) + 1]]>>
               /\ Entry(conversations', u, t).related_message_ids
                    = Entry(conversations, u, t).related_message_ids
               /\ last_event'.written = <<>>]_vars

\* the click on the last category of the list was taken
CategoryClickWitness ==
    /\ last_event.handler = "category_selected"
    /\ last_event.outcome = "category_set"
    /\ last_event.button = "6"
    /\ Has(conversations, last_event.user, last_event.tx)
    /\ Entry(conversations, last_event.user, last_event.tx).state = "SELECTING_SHARING_TYPE"
    /\ Entry(conversations, last_event.user, last_event.tx).transaction[1].category
         = "Miscellaneous"

\* C20 as stated: a click on the shared button of the sharing keyboard of an
\* existing conversation (u, t), when the edit and the prompt go out, sets
\* is_shared of the held transaction, sends a prompt whose message id is put
\* among the related_message_ids of (u, t), leaves (u, t) in
\* ENTERING_SHARE_AMOUNT and hands nothing to the persistence wrapper.
SharedAsksShare ==
    (/\ last_event.handler = "sharing_type_selected"
     /\ last_event.button = "shared"
     /\ last_event.existed
     /\ last_event.outcome # "error")
    => /\ last_event.outcome = "asked_share"
       /\ last_event.prompt # 0
       /\ last_event.written = <<>>
       /\ Has(conversations, last_event.user, last_event.tx)
       /\ LET entry == Entry(conversations, last_event.user, last_event.tx)
          IN  /\ entry.transaction[1].is_shared
              /\ entry.state = "ENTERING_SHARE_AMOUNT"
              /\ last_event.prompt \in entry.related_message_ids

\* C21 as stated: a category click on an existing conversation (u, t) whose
\* index is outside 0 .. len(EXPENSE_CATEGORIES) - 1, when the error message
\* goes out, is answered with the error message and ends (u, t), and nothing
\* is handed to the persistence wrapper.
OutOfRangeClickRejected ==
    [][\A u \in Users, t \in TxIds :
          (/\ last_event'.handler = "category_selected"
           /\ last_event'.user = u /\ last_event'.tx = t
           /\ Has(conversations, u, t)
           /\ int(IndexText(last_event'.button)) \notin 0..(Len(EXPENSE_CATEGORIES) - 1)
           /\ last_event'.outcome # "raised")
          => /\ last_event'.outcome = "error"
             /\ ~Has(conversations', u, t)
             /\ last_event'.written = <<>>]_vars

(***************************************************************************)
(* Properties of the persistence wrapper (checked under SpecWrapper)       *)
(***************************************************************************)
\* C15: when the sheet sink (the primary sink) raises, write_transaction
\* returns False, whatever the other two sinks would do.
PrimaryRaisesReportsFailure ==
    (wrapper_call.called /\ wrapper_call.sheet = "raise") => ~wrapper_call.result

\* the sheet sink raised while both other sinks would have succeeded
PrimaryRaisesWitness ==
    /\ wrapper_call.called
    /\ wrapper_call.sheet = "raise"
    /\ wrapper_call.firebase = "true" /\ wrapper_call.postgres = "true"
    /\ ~wrapper_call.result

\* C16 as stated: when the sheet sink succeeds, each of the other sinks is
\* attempted and the result is True whatever they do.
SecondariesAttempted ==
    (wrapper_call.called /\ wrapper_call.sheet = "true")
      => /\ wrapper_call.result
         /\ \A k \in 2..Len(Sinks) : Sinks[k] \in Range(wrapper_call.attempted)

\* C17 as stated: write_transaction returns the sheet sink's own result: True
\* when the sink returns True, False when it returns False or raises.
ReturnsPrimaryResult ==
    wrapper_call.called => (wrapper_call.result <=> wrapper_call.sheet = "true")

(***************************************************************************)
(* Properties of one poll cycle (checked under SpecRead)                   *)
(***************************************************************************)
\* C22 as stated: when the first read of a poll raises, the reader reconnects
\* once and, the reconnect made, reads once more; when the read fails for
\* good the failure leaves the poll as an error and the cursor stays.
ReadFailureSurfaces ==
    (call.op = "check_for_updates" /\ call.first = "raise")
    => /\ call.connects = 1
       /\ call.reconnect = "ok" => call.reads = 2
       /\ call.read_raised => (call.raised /\ call.cursor = call.last)

(***************************************************************************)
(* Properties of the periodic loop (checked under SpecPollFair)            *)
(***************************************************************************)
\* the callers whose cycle is at its end with a record of it notified to
\* nobody by that caller
NotificationFailed(p) ==
    /\ pc[p] = "return"
    /\ \E i \in Range(new_transactions[p]) : p \notin notifiedBy[i]

\* every periodic cycle that began ends, and after it another one begins
PeriodicCycleRecurs ==
    /\ (pc["periodic"] # "idle") ~> (pc["periodic"] = "idle")
    /\ (pc["periodic"] = "idle") ~> (pc["periodic"] = "fetch")

\* C23 as stated: whatever fails inside a poll cycle, the periodic cycle runs
\* again, and a cycle in which a read, the sheet's structure or a notification
\* failed has not written the cursor.
FailedCycleRetried ==
    /\ PeriodicCycleRecurs
    /\ [](\A p \in Procs :
            (pc[p] = "return" /\ (new_transactions[p] = <<>> \/ NotificationFailed(p)))
              => ~wrote[p])

(***************************************************************************)
(* Properties of the store's operations (checked under SpecStore)          *)
(***************************************************************************)
\* every cell of store c but (u, t) is as in store b
OtherCellsKept(b, c, u, t) ==
    \A v \in Users, x \in TxIds : (v # u \/ x # t) => c[v][x] = b[v][x]

\* C24: after start_conversation(user_id, transaction, state) the store holds
\* at (user_id, transaction.transaction_id) one entry with the given
\* transaction, the given state and no linked message, whatever it held there
\* before, and what it holds elsewhere is unchanged.
StartReplacesEntry ==
    call.op = "start_conversation"
    => /\ Len(call.after[call.user][call.tx]) = 1
       /\ Entry(call.after, call.user, call.tx).transaction = <<call.value[1]>>
       /\ Entry(call.after, call.user, call.tx).state = call.value[2]
       /\ Entry(call.after, call.user, call.tx).related_message_ids = {}
       /\ call.value[1].transaction_id = call.tx
       /\ OtherCellsKept(call.before, call.after, call.user, call.tx)
       /\ \A v \in Users, x \in TxIds : Len(call.after[v][x]) <= 1

\* a conversation with answers and a linked prompt was opened again while the
\* user had another one
StartReplacesWitness ==
    /\ call.op = "start_conversation"
    /\ call.user = "u1" /\ call.tx = "t1"
    /\ Has(call.before, "u1", "t1")
    /\ Entry(call.before, "u1", "t1").state = "ENTERING_SHARE_AMOUNT"
    /\ Entry(call.before, "u1", "t1").related_message_ids = {1}
    /\ Has(call.before, "u1", "t2")
    /\ Entry(call.after, "u1", "t1").state = "SELECTING_CATEGORY"
    /\ Entry(call.after, "u1", "t1").transaction[1].category = "None"

\* the name of the field of Transaction an update of the store sets
FieldOf(op) ==
    IF op = "update_category" THEN "category"
    ELSE IF op = "update_sharing_status" THEN "is_shared"
    ELSE "user_share"

\* C25: update_category, update_sharing_status and update_user_share on a
\* held entry set the named field of its Transaction to the given value and
\* leave the other fields, the state, the linked messages and every other
\* entry as they were; an entry with no Transaction gets one with the
\* transaction id and the defaults of the dataclass before the field is set;
\* on an absent entry the store is left as it was.
UpdateSetsOneField ==
    call.op \in {"update_category", "update_sharing_status", "update_user_share"}
    => IF call.before[call.user][call.tx] = <<>>
       THEN call.after = call.before
       ELSE LET old == Entry(call.before, call.user, call.tx)
                new == Entry(call.after, call.user, call.tx)
                base == IF old.transaction = <<>>
                        THEN [transaction_id |-> call.tx, amount |-> Num(0),
                              category |-> "None", is_shared |-> FALSE,
                              user_share |-> Num(0)]
                        ELSE old.transaction[1]
            IN  /\ Len(call.after[call.user][call.tx]) = 1
                /\ new.state = old.state
                /\ new.related_message_ids = old.related_message_ids
                /\ Len(new.transaction) = 1
                /\ new.transaction[1][FieldOf(call.op)] = call.value
                /\ \A f \in DOMAIN base \ {FieldOf(call.op)} :
                      new.transaction[1][f] = base[f]
                /\ OtherCellsKept(call.before, call.after, call.user, call.tx)

\* a sharing status was set on an entry that holds the answers of a
\* conversation
UpdateHeldWitness ==
    /\ call.op = "update_sharing_status"
    /\ call.value = FALSE
    /\ Has(call.before, call.user, call.tx)
    /\ Entry(call.before, call.user, call.tx).transaction # <<>>
    /\ Entry(call.before, call.user, call.tx).transaction[1].is_shared
    /\ Entry(call.after, call.user, call.tx).transaction[1].category = "Commute"
    /\ ~Entry(call.after, call.user, call.tx).transaction[1].is_shared

(***************************************************************************)
(* Properties of the transaction id (checked under SpecFingerprint)        *)
(***************************************************************************)
\* the fields in which the two transactions differ
DifferingFields == {k \in 1..4 : call.transactions[1][k] # call.transactions[2][k]}

\* C26 as stated: two transactions that differ in a field have different
\* fingerprints (and, the digest being free of collisions, different ids),
\* fields that hold the delimiter included.
FingerprintInjective ==
    (call.op = "get_transaction_id" /\ DifferingFields # {})
    => /\ call.fingerprints[1] # call.fingerprints[2]
       /\ call.ids[1] # call.ids[2]

\* C27: two transactions that differ in exactly one of date, description,
\* amount and bank have different fingerprints and, the digest being free of
\* collisions, different ids.
OneFieldChangesId ==
    (call.op = "get_transaction_id" /\ Cardinality(DifferingFields) = 1)
    => /\ call.fingerprints[1] # call.fingerprints[2]
       /\ call.ids[1] # call.ids[2]

\* two transactions that differ in the bank alone, one bank holding the
\* delimiter
OneFieldWitness ==
    /\ call.op = "get_transaction_id"
    /\ DifferingFields = {4}
    /\ call.transactions[1][4] = <<"a", "|", "a">>
    /\ call.transactions[2][4] = <<"a">>
    /\ call.fingerprints[1] # call.fingerprints[2]

\* C28: /cancel removes the entry of the user's conversation from the bot's
\* store, leaves the other users' entries and hands nothing to a persistence
\* sink; end_conversation of the conversation store removes the entry at
\* (user_id, transaction_id) and nothing else.
CancelRemovesEntry ==
    /\ call.op = "cancel_transaction"
         => /\ call.after[call.user] = <<>>
            /\ \A v \in Users \ {call.user} : call.after[v] = call.before[v]
            /\ call.written = <<>>
    /\ call.op = "end_conversation"
         => /\ call.after[call.user][call.tx] = <<>>
            /\ OtherCellsKept(call.before, call.after, call.user, call.tx)

\* a user with an answered conversation cancelled it while another user had
\* one
CancelWitness ==
    /\ call.op = "cancel_transaction"
    /\ call.before[call.user] # <<>>
    /\ call.before[call.user][1].category = "Commute"
    /\ \E v \in Users \ {call.user} : call.before[v] # <<>> /\ call.after[v] # <<>>
    /\ call.after[call.user] = <<>>

OtherTransactionsKept ==
    /\ call.op \in {"start_conversation", "update_category", "update_sharing_status",
                    "update_user_share", "end_conversation"}
         => \A x \in TxIds \ {call.tx} :
               call.after[call.user][x] = call.before[call.user][x]
    /\ call.op = "TransactionContext_start_conversation"
         => \A k \in 1..Len(call.before[call.user]) :
               call.before[call.user][k].transaction # call.tx
                 => call.before[call.user][k] \in Range(call.after[call.user])

(***************************************************************************)
(* Order of the states of a conversation (checked under Spec)              *)
(***************************************************************************)
\* position of a state in SELECTING_CATEGORY, SELECTING_SHARING_TYPE,
\* ENTERING_SHARE_AMOUNT, COMPLETED
StateRank(conversation_state) ==
    CASE conversation_state = "SELECTING_CATEGORY" -> 1
      [] conversation_state = "SELECTING_SHARING_TYPE" -> 2
      [] conversation_state = "ENTERING_SHARE_AMOUNT" -> 3
      [] OTHER -> 4

\* C31 as stated: no click and no reply moves a conversation that stays in the
\* store back to an earlier state, a repeated or late category click or sharing
\* click included, and a conversation is handed to the persistence wrapper only
\* from SELECTING_SHARING_TYPE or ENTERING_SHARE_AMOUNT.
StateOnlyForward ==
    [][last_event'.handler \in {"category_selected", "sharing_type_selected",
                                "share_amount_entered"}
        => /\ \A u \in Users, t \in TxIds :
                Has(conversations, u, t) /\ Has(conversations', u, t)
                  => StateRank(Entry(conversations', u, t).state)
                       >= StateRank(Entry(conversations, u, t).state)
           /\ last_event'.written # <<>>
                => Entry(conversations, last_event'.user, last_event'.tx).state
                     \in {"SELECTING_SHARING_TYPE", "ENTERING_SHARE_AMOUNT"}]_vars

\* C32 as stated: every Transaction handed to the persistence wrapper has a
\* category of the category list (never the None of a conversation whose
\* category was not chosen) and the sharing decision of the user: not shared
\* by a solo click, or shared with the share of the accepted reply.
WrittenFullyPopulated ==
    last_event.written # <<>>
      => /\ last_event.written[1].category \in Range(EXPENSE_CATEGORIES)
         /\ last_event.handler = "sharing_type_selected"
              => ~last_event.written[1].is_shared /\ last_event.button = "solo"
         /\ last_event.handler = "share_amount_entered"
              => last_event.written[1].is_shared

(***************************************************************************)
(* Properties of what a poll returns (checked under SpecRead)              *)
(***************************************************************************)
\* the rows of the snapshot after the cursor that have all required fields
WellFormedAfter(snapshot, last) ==
    {i \in 1..(Len(snapshot) - 1) : i > last /\ Row(snapshot, i) >= min_expected_columns}

\* the poll read the sheet and found a header row with all expected columns
HeaderValid ==
    /\ call.op = "check_for_updates"
    /\ ~call.read_raised
    /\ Len(call.snapshot) > 0
    /\ Row(call.snapshot, 0) >= min_expected_columns

\* C33: a poll that returns at least one record returns as cursor the index of
\* the last row of the snapshot it read (its number of rows minus one), also
\* when rows after the old cursor, the last one included, were dropped as
\* malformed.
CursorIsLastRowOfSnapshot ==
    (call.op = "check_for_updates" /\ call.new_rows # <<>>)
      => /\ call.new_last = Len(call.snapshot) - 1
         /\ call.cursor = Len(call.snapshot) - 1

\* a poll from cursor 0 whose snapshot ends with a malformed row: one record
\* returned, and the cursor is 2, not 0 + 1
CursorPastDroppedWitness ==
    /\ call.op = "check_for_updates"
    /\ call.last = 0
    /\ Len(call.snapshot) = 3
    /\ Row(call.snapshot, 2) < min_expected_columns
    /\ call.new_rows = <<1>>
    /\ call.new_last = 2
    /\ call.new_last # call.last + Len(call.new_rows)

\* C34 as stated: the records a poll returns from cursor c are the rows of the
\* snapshot it read with index greater than c that have all required fields,
\* in source order, none left out.
ReturnsRowsAfterCursor ==
    (call.op = "check_for_updates" /\ ~call.read_raised)
      => /\ Range(call.new_rows) = WellFormedAfter(call.snapshot, call.last)
         /\ \A j, k \in 1..Len(call.new_rows) : j < k => call.new_rows[j] < call.new_rows[k]

\* C34: the records a poll returns from cursor c are the rows of the snapshot
\* it read with index greater than c (never the header) that have all required
\* fields, in source order, none left out, provided the header row of the
\* snapshot has all expected columns.
ReturnsRowsAfterCursorOfValidSheet ==
    HeaderValid
      => /\ Range(call.new_rows) = WellFormedAfter(call.snapshot, call.last)
         /\ \A j, k \in 1..Len(call.new_rows) : j < k => call.new_rows[j] < call.new_rows[k]
         /\ \A k \in 1..Len(call.new_rows) : call.new_rows[k] > Max(call.last, 0)

\* a poll from cursor 1 of a sheet with a well-formed row 1 and row 2: row 2
\* alone is returned
RowsAfterCursorWitness ==
    /\ HeaderValid
    /\ call.last = 1
    /\ Len(call.snapshot) = 3
    /\ Row(call.snapshot, 1) >= min_expected_columns
    /\ call.new_rows = <<2>>

\* C35: a poll that reads a sheet with no header row, or with a header row of
\* fewer than the expected columns, returns no records and the cursor it was
\* given, saves no cursor and does not raise, whatever rows follow the header.
BadHeaderReturnsNothing ==
    (/\ call.op = "check_for_updates"
     /\ ~call.read_raised
     /\ (Len(call.snapshot) = 0 \/ Row(call.snapshot, 0) < min_expected_columns))
      => /\ call.new_rows = <<>>
         /\ call.new_last = call.last
         /\ call.cursor = call.last
         /\ ~call.raised

\* a poll from cursor 0 of a sheet with a short header and two well-formed rows
BadHeaderWitness ==
    /\ call.op = "check_for_updates"
    /\ ~call.read_raised
    /\ call.last = 0
    /\ Len(call.snapshot) = 3
    /\ Row(call.snapshot, 0) < min_expected_columns
    /\ Row(call.snapshot, 1) >= min_expected_columns
    /\ Row(call.snapshot, 2) >= min_expected_columns
    /\ call.new_rows = <<>>

\* C36 as stated: a poll that reads a sheet with a valid header and at least
\* one well-formed row after the cursor returns every such row and the cursor
\* of the end of the snapshot, whatever malformed rows (fewer fields than the
\* reader reads) stand among the rows after the cursor; in both readers.
MalformedRowDroppedAlone ==
    (/\ call.op \in {"check_for_updates", "SheetMonitor_get_new_rows"}
     /\ ~call.read_raised
     /\ Len(call.snapshot) > 0
     /\ Row(call.snapshot, 0) >= min_expected_columns
     /\ WellFormedAfter(call.snapshot, call.last) # {})
      => /\ Range(call.new_rows) = WellFormedAfter(call.snapshot, call.last)
         /\ call.new_last = Len(call.snapshot) - 1

(***************************************************************************)
(* Events for a conversation the store does not hold                       *)
(***************************************************************************)
\* C37 as stated, for a completion (checked under SpecStore): a run of
\* complete_transaction for a user and transaction without an entry answers
\* 'context not found', leaves the store as it was and hands nothing to the
\* persistence wrapper.
CompletionWithoutEntryAnswered ==
    (call.op = "complete_transaction" /\ ~Has(call.before, call.user, call.tx))
      => /\ call.result.message = "context_not_found"
         /\ ~call.result.raised
         /\ call.result.store = call.before
         /\ call.result.written = <<>>

\* the clicks of C37 (checked under Spec): a category click or a sharing click
\* whose callback data name a transaction without an entry of the user is
\* answered 'not found', changes no entry and hands nothing to the persistence
\* wrapper.
ClickWithoutEntryAnswered ==
    [][LET e == last_event'
           named == IF e.handler = "category_selected"
                    THEN Key(split(get_category_keyboard(e.tx, e.button), "_")[2])
                    ELSE Key(split(get_sharing_type_keyboard(e.tx)[e.button], "_")[2])
       IN  (/\ e.handler \in {"category_selected", "sharing_type_selected"}
            /\ ~Has(conversations, e.user, named))
             => /\ e.outcome \in {"transaction_not_found", "context_not_found"}
                /\ conversations' = conversations
                /\ e.written = <<>>]_vars

(***************************************************************************)
(* Notifications of a poll cycle                                           *)
(***************************************************************************)
\* C38 as stated, for the cycle (checked under SpecPoll): at the end of a poll
\* cycle that advanced the cursor every record the poll returned has been
\* notified by that cycle, none is left without a recipient.
ReturnedRecordsNotified ==
    \A p \in Procs :
       (pc[p] = "return" /\ wrote[p])
         => \A k \in 1..Len(new_transactions[p]) : p \in notifiedBy[new_transactions[p][k]]

\* the conversations of C38 (checked under Spec): a notification that was sent
\* opens the conversation of its user and transaction in SELECTING_CATEGORY, one
\* whose send failed changes no entry, and an entry is held only for a user and
\* transaction whose notification was sent.
ConversationOpenedOnSend ==
    /\ [](\A u \in Users, t \in TxIds : Has(conversations, u, t) => keyboards[u][t] # "none")
    /\ [][last_event'.handler = "send_transaction_notification"
            => IF last_event'.outcome = "opened"
               THEN /\ Has(conversations', last_event'.user, last_event'.tx)
                    /\ Entry(conversations', last_event'.user, last_event'.tx).state
                         = "SELECTING_CATEGORY"
               ELSE conversations' = conversations]_vars

(***************************************************************************)
(* Callback data of the sharing keyboard (checked under Spec)              *)
(***************************************************************************)
\* C39 as stated: for every transaction id t the callback data that
\* get_sharing_type_keyboard puts on the 'shared' and the 'solo' button of t
\* are decoded by sharing_type_selected to t, with is_shared true for 'shared'
\* and false for 'solo'; so a sharing click on a keyboard of a conversation in
\* the store always finds it.
SharingCallbackDecoded ==
    /\ [](\A t \in TxIds, button \in {"shared", "solo"} :
            LET parts == split(get_sharing_type_keyboard(t)[button], "_")
            IN  /\ Len(parts) >= 2
                /\ Key(parts[2]) = t
                /\ IsSharedMode(parts[1]) = (button = "shared"))
    /\ [][(last_event'.handler = "sharing_type_selected" /\ last_event'.existed)
            => last_event'.outcome # "context_not_found"]_vars

(***************************************************************************)
(* Row index of a notification (checked under SpecPoll)                    *)
(***************************************************************************)
\* telegram_bot.py:403: row_index = last_processed_row + index + 1, the row
\* index check_for_updates puts into the callback data of the notification it
\* sends next
row_index(p) == last_processed_row[p] + index[p] + 1

\* C40 as stated: the row index check_for_updates embeds in a notification is
\* the source row index of the record the notification describes, also when
\* malformed rows between the cursor and the record were dropped.
NotificationNamesItsRow ==
    \A p \in Procs :
       pc[p] = "notify" => row_index(p) = new_transactions[p][index[p] + 1]
====
